---- MODULE Spec2Model ----
(***************************************************************************)
(* Model of the note hooks of the front end (hooks/useNote: useNote,       *)
(* useCreateNote, useNoteContent, useDeleteNote, useUpdateNote,            *)
(* useMakeNotePrivate, useUpdateNotePermissions, useDuplicateNote).        *)
(*                                                                         *)
(* Two specifications:                                                     *)
(*   SpecUpdate  one useUpdateNote instance: the lodash-debounced flush,   *)
(*               its two requests, the remote note service, unmount.       *)
(*   SpecHooks   one instance of one of the promise-returning hooks,       *)
(*               chosen in the initial state, and the calls made to it.    *)
(*                                                                         *)
(* A React state setter is an assignment; the synchronous part of a        *)
(* handler up to its first await is one action, and each continuation      *)
(* after an await is one action whose input is the settled value.          *)
(***************************************************************************)
EXTENDS Integers, Sequences, FiniteSets, TLC

\* ------------------------------------------------------------------ bounds
\* Clock granularity and horizon, in milliseconds.
TickMs == 1000
MaxTimeMs == 4000
\* Number of updateNote invocations explored.
MaxUpdateCalls == 2
\* The value of options.debounceMs when the caller sets it.
CustomDebounceMs == 1000
\* Number of calls of a promise-returning hook action explored.
MaxHookCalls == 2

\* Length of the notes array a NoteList is given.
MaxNotes == 2

\* Number of uploadAsset calls and of flag calls explored.
MaxUploads == 2
MaxFlags == 2

\* ----------------------------------------------------------- program values
\* options.debounceMs ?? 2000
DefaultDebounceMs == 2000

Undef == "undefined"
\* timerId of a debounced function with no timer armed.
NoTimer == -1
\* options.debounceMs left undefined.
UndefMs == -1

\* ID values; the empty string is the falsy one.
UpdNoteIds == {"", "n1", "n2"}
Editors == {"e1", "e2"}
NoEditor == "undefined"
\* What getDocumentTitleFromEditor returns: null, or a title.
NullTitle == "null"
DocTitles == {NullTitle, "A"}
\* The body of the document after the i-th edit: every edit changes it.
BodyAfter(i) == i

\* Values a rejected service promise carries.
Thrown ==
  { [kind |-> "NoteError", message |-> "note service error"],
    [kind |-> "Error", message |-> "network down"],
    [kind |-> "Other", message |-> ""] }

\* The rejections of a hook that only tells a NoteError from anything else.
UpdThrown == { e \in Thrown : e.kind # "Other" }

\* Error | null of a hook's error state.  src is the call (or flush) whose
\* catch block built the object, 0 for an object thrown by the service.
NoError == [name |-> "null", message |-> "", src |-> 0]
NewError(msg, who) == [name |-> "Error", message |-> msg, src |-> who]

\* Note, NoteWithContent and NoteContent values, and null.
NullNote == [id |-> "null", title |-> "", access |-> "", content |-> "", contentJson |-> ""]

Truthy(x) == x # "" /\ x # Undef /\ x # NullTitle

\* `x || ''`
OrEmpty(x) == IF Truthy(x) THEN x ELSE ""

\* err instanceof NoteError ? err.message : fallback
ErrorMsg(err, fallback) == IF err.kind = "NoteError" THEN err.message ELSE fallback

VARIABLES
  \* ---- useUpdateNote instance
  now,            \* wall clock, ms
  uMounted,       \* the component using the hook is mounted
  uNoteId,        \* the noteId argument of the current render
  uOptions,       \* the options argument of the current render
  uIsLoading,     \* useState(false)
  uError,         \* useState<Error | null>(null)
  titleRef,       \* useRef('')
  debouncedUpdate,\* the DebouncedFunc kept in useRef: wait, captured options,
                  \* lastArgs, lastCallTime, timerId
  doc,            \* the document each editor currently holds
  uFlushes,       \* every invocation of the debounced function, in order
  uInflight,      \* requests issued and not yet answered
  uReqLog,        \* every request issued, in order
  remote,         \* the note service's store: title and content per note
  uCalls,         \* every updateNote(editor) call that reached the debounce
  uConsole,       \* console.error calls
  uTitleCb,       \* onTitleUpdate calls, in order
  uFailed,        \* some request of this hook was rejected
  \* ---- one instance of one promise-returning hook
  hook,           \* which hook the component uses
  hNote,          \* useState<...| null>(null), for the hooks that keep a note
  hIsLoading,     \* useState(false)
  hError,         \* useState<Error | null>(null)
  hCalls,         \* every call of the hook's action, in order, with its progress
  hSvcLog,        \* every NoteService request issued, in order
  nMounted,       \* useNote: the mount effect has run
  nNoteId,        \* useNote: the noteId argument of the current render
  nSend,          \* useNote: options.sendImmediately of the current render
  nInitialNote,   \* useNote: the caller has the note already and supplies it
  \* ---- one NoteList component
  lNotes,         \* props.notes
  lType,          \* props.type
  lIsLoading,     \* props.isLoading
  lView,          \* what the last render returned
  \* ---- one ImageUploadModal
  isDragging,     \* useState(false)
  selectedFile,   \* useState<File | null>(null)
  validationError,\* useState<string | null>(null)
  isUploading,    \* useAssetUpload: loading
  uploadError,    \* useAssetUpload: error
  iUploads,       \* every uploadAsset call, in order, with its outcome
  iEvents,        \* every onImageEmbed and onClose call, in order
  \* ---- one FlagContentModal
  isOpen,         \* props.isOpen
  workType,       \* props.workType
  commentId,      \* props.commentId
  selectedReason, \* useState<FlagReasonKey | null>(null)
  fIsLoading,     \* useFlag: isLoading
  fRequests,      \* every flag(...) call, in order, with its outcome
  fEvents         \* every toast and onClose call, in order

uVars == << now, uMounted, uNoteId, uOptions, uIsLoading, uError, titleRef,
            debouncedUpdate, doc, uFlushes, uInflight, uReqLog, remote,
            uCalls, uConsole, uTitleCb, uFailed >>

hVars == << hook, hNote, hIsLoading, hError, hCalls, hSvcLog, nMounted, nNoteId,
            nSend, nInitialNote >>

lVars == << lNotes, lType, lIsLoading, lView >>

iVars == << isDragging, selectedFile, validationError, isUploading, uploadError,
            iUploads, iEvents >>

fVars == << isOpen, workType, commentId, selectedReason, fIsLoading, fRequests, fEvents >>

\* The two modals.
mVars == << iVars, fVars >>

vars == << uVars, hVars, lVars, mVars >>

\* The variables of a component the specification at hand does not look at.
IdleHooks ==
  /\ hook = "useUpdateNote"
  /\ hNote = NullNote
  /\ hIsLoading = FALSE
  /\ hError = NoError
  /\ hCalls = << >>
  /\ hSvcLog = << >>
  /\ nMounted = FALSE
  /\ nNoteId = "n1"
  /\ nSend = Undef
  /\ nInitialNote = FALSE

\* null and undefined of the modals' state and props.
Null == "null"

IdleUpload ==
  /\ isDragging = FALSE
  /\ selectedFile = Null
  /\ validationError = Null
  /\ isUploading = FALSE
  /\ uploadError = Null
  /\ iUploads = << >>
  /\ iEvents = << >>

IdleFlag ==
  /\ isOpen = FALSE
  /\ workType = "paper"
  /\ commentId = Undef
  /\ selectedReason = Null
  /\ fIsLoading = FALSE
  /\ fRequests = << >>
  /\ fEvents = << >>

IdleList ==
  /\ lNotes = << >>
  /\ lType = "workspace"
  /\ lIsLoading = FALSE
  /\ lView = [kind |-> "none", text |-> "", items |-> << >>]

\* ===================================================== useUpdateNote

UpdOptions ==
  { [debounceMs |-> UndefMs, onTitleUpdate |-> "cb1"],
    [debounceMs |-> CustomDebounceMs, onTitleUpdate |-> Undef] }

\* options.debounceMs ?? 2000
WaitOf(options) ==
  IF options.debounceMs = UndefMs THEN DefaultDebounceMs ELSE options.debounceMs

NoArgs == [editor |-> NoEditor, noteId |-> ""]

\* useRef(debounce(fn, options.debounceMs ?? 2000)): the initial value of the
\* ref is the debounced function built at the first render; it closes over
\* that render's options.
NewDebounced(options) ==
  [ wait |-> WaitOf(options), options |-> options,
    lastArgs |-> NoArgs, lastCallTime |-> 0, timerId |-> NoTimer ]

InitRemote == [n \in UpdNoteIds \ {""} |-> [title |-> "", content |-> 0]]

InitUpdate ==
  /\ now = 0
  /\ uMounted = TRUE
  /\ uNoteId \in UpdNoteIds
  /\ uOptions \in UpdOptions
  /\ uIsLoading = FALSE
  /\ uError = NoError
  /\ titleRef = ""
  /\ debouncedUpdate = NewDebounced(uOptions)
  /\ doc = [e \in Editors |-> [title |-> NullTitle, body |-> 0]]
  /\ uFlushes = << >>
  /\ uInflight = {}
  /\ uReqLog = << >>
  /\ remote = InitRemote
  /\ uCalls = << >>
  /\ uConsole = 0
  /\ uTitleCb = << >>
  /\ uFailed = FALSE
  /\ IdleHooks
  /\ IdleList
  /\ IdleUpload
  /\ IdleFlag

\* Timers are punctual: a timer that is due runs before any later event, so
\* time does not pass it and no call, render or unmount is handled while it
\* is due.
TimerDue == debouncedUpdate.timerId # NoTimer /\ now >= debouncedUpdate.timerId

\* The deadline of the trailing-edge timer after a call at time t (lodash
\* debounce with the default leading: false, trailing: true): the timer is
\* measured from the last call.
DeadlineKeepFirst(t, wait, timer) == IF timer = NoTimer THEN t + wait ELSE timer
Deadline(t, wait, timer) == t + wait

\* debouncedUpdate.current(editor, noteId): remember the arguments and the
\* time of the call, (re)arm the timer; the function itself is not invoked.
DebouncedCall(d, editor, noteId, t) ==
  [ d EXCEPT !.lastArgs = [editor |-> editor, noteId |-> noteId],
             !.lastCallTime = t,
             !.timerId = Deadline(t, d.wait, d.timerId) ]

\* debouncedUpdate.current.cancel()
CancelNothing(d) == d
Cancel(d) == [ d EXCEPT !.lastArgs = NoArgs, !.timerId = NoTimer ]

Budget == Len(uCalls) + uConsole < MaxUpdateCalls

\* The user edits the document of `editor`, leaving it with `title`, and the
\* editor's update handler calls updateNote(editor).  Only a mounted component
\* calls its updateNote.
UpdateNote(editor, title) ==
  /\ uMounted
  /\ Budget
  /\ ~TimerDue
  /\ IF ~Truthy(editor)
     THEN /\ uConsole' = uConsole + 1
          /\ UNCHANGED << debouncedUpdate, doc, uCalls >>
     ELSE /\ doc' = [doc EXCEPT ![editor] = [title |-> title, body |-> BodyAfter(Len(uCalls) + 1)]]
          /\ debouncedUpdate' = DebouncedCall(debouncedUpdate, editor, uNoteId, now)
          /\ uCalls' = Append(uCalls, [t |-> now, editor |-> editor, noteId |-> uNoteId])
          /\ UNCHANGED uConsole
  /\ UNCHANGED << now, uMounted, uNoteId, uOptions, uIsLoading, uError, titleRef,
                  uFlushes, uInflight, uReqLog, remote, uTitleCb, uFailed >>
  /\ UNCHANGED << hVars, lVars, mVars >>

Tick ==
  /\ now + TickMs <= MaxTimeMs
  /\ ~TimerDue
  /\ now' = now + TickMs
  /\ UNCHANGED << uMounted, uNoteId, uOptions, uIsLoading, uError, titleRef,
                  debouncedUpdate, doc, uFlushes, uInflight, uReqLog, remote,
                  uCalls, uConsole, uTitleCb, uFailed >>
  /\ UNCHANGED << hVars, lVars, mVars >>

\* newTitle !== titleRef.current
TitleChangedAlways(newTitle, ref) == TRUE
TitleChanged(newTitle, ref) == newTitle # ref

\* The requests one run of the debounced function issues, in order: the title
\* request when the title changed, then always the content request.
FlushRequests(k, editor, noteId, newTitle, body, ref) ==
  (IF TitleChanged(newTitle, ref)
   THEN << [flush |-> k, kind |-> "title", noteId |-> noteId, value |-> newTitle,
            editor |-> editor] >>
   ELSE << >>)
  \o << [flush |-> k, kind |-> "content", noteId |-> noteId, value |-> body,
         editor |-> editor] >>

SeqToSet(s) == { s[i] : i \in 1..Len(s) }

\* if (!editor || !noteId) { console.error(...); return; }
GuardEditorOnly(editor, noteId) == Truthy(editor)
GuardPasses(editor, noteId) == Truthy(editor) /\ Truthy(noteId)

\* The timer expires: the debounced function runs with the last arguments.
TimerExpired ==
  /\ TimerDue
  /\ LET args == debouncedUpdate.lastArgs
         k == Len(uFlushes) + 1
         passed == GuardPasses(args.editor, args.noteId)
         d == IF passed THEN doc[args.editor] ELSE [title |-> NullTitle, body |-> 0]
         newTitle == OrEmpty(d.title)
         reqs == FlushRequests(k, args.editor, args.noteId, newTitle, d.body, titleRef)
     IN /\ debouncedUpdate' = [debouncedUpdate EXCEPT !.timerId = NoTimer, !.lastArgs = NoArgs]
        /\ IF ~passed
           THEN /\ uConsole' = uConsole + 1
                /\ uFlushes' = Append(uFlushes,
                     [ t |-> now, editor |-> args.editor, noteId |-> args.noteId,
                       passed |-> FALSE, newTitle |-> "", body |-> 0, oldRef |-> titleRef,
                       awaiting |-> FALSE, outstanding |-> 0, rejected |-> {} ])
                /\ UNCHANGED << uIsLoading, uError, titleRef, uInflight, uReqLog >>
           ELSE /\ uIsLoading' = TRUE
                /\ uError' = NoError
                /\ titleRef' = IF TitleChanged(newTitle, titleRef) THEN newTitle ELSE titleRef
                /\ uInflight' = uInflight \cup SeqToSet(reqs)
                /\ uReqLog' = uReqLog \o reqs
                /\ uFlushes' = Append(uFlushes,
                     [ t |-> now, editor |-> args.editor, noteId |-> args.noteId,
                       passed |-> TRUE, newTitle |-> newTitle, body |-> d.body,
                       oldRef |-> titleRef,
                       awaiting |-> TRUE, outstanding |-> Len(reqs), rejected |-> {} ])
                /\ UNCHANGED uConsole
  /\ UNCHANGED << now, uMounted, uNoteId, uOptions, doc, remote, uCalls, uTitleCb, uFailed >>
  /\ UNCHANGED << hVars, lVars, mVars >>

\* What the catch block of flush f does to the debounced function: nothing.
RetryAfterFailure(d, f, t) == DebouncedCall(d, f.editor, f.noteId, t)
AfterFailure(d, f, t) == d

\* The service applies a request to its store.
Applied(store, r) ==
  IF r.kind = "title"
  THEN [store EXCEPT ![r.noteId].title = r.value]
  ELSE [store EXCEPT ![r.noteId].content = r.value]

\* .then(() => { options.onTitleUpdate?.(newTitle); }) is attached to the
\* updateNoteTitle promise alone; left is the number of promises of the flush
\* still pending.
ThenRunsAfterAll(r, left) == r.kind = "title" /\ left = 0
ThenRuns(r, left) == r.kind = "title"

\* The service answers request r with success: the store changes, the request's
\* promise is fulfilled; a fulfilled title request runs its .then callback;
\* when it was the last outstanding promise of its flush, Promise.all is
\* fulfilled and the finally block runs.
ReplyOk(r) ==
  /\ r \in uInflight
  /\ uInflight' = uInflight \ {r}
  /\ remote' = Applied(remote, r)
  /\ LET f == uFlushes[r.flush]
         cb == debouncedUpdate.options.onTitleUpdate
         left == f.outstanding - 1
     IN /\ uTitleCb' = IF ThenRuns(r, left) /\ cb # Undef
                       THEN Append(uTitleCb, [cb |-> cb, title |-> r.value, flush |-> r.flush])
                       ELSE uTitleCb
        /\ uFlushes' = [uFlushes EXCEPT ![r.flush].outstanding = left,
                                        ![r.flush].awaiting = f.awaiting /\ left > 0]
        /\ uIsLoading' = IF f.awaiting /\ left = 0 THEN FALSE ELSE uIsLoading
  /\ UNCHANGED << now, uMounted, uNoteId, uOptions, uError, titleRef, debouncedUpdate,
                  doc, uReqLog, uCalls, uConsole, uFailed >>
  /\ UNCHANGED << hVars, lVars, mVars >>

\* titleRef.current after the catch block of flush f ran for request r: the
\* catch block does not touch it.
RefRolledBack(ref, f, r) == IF r.kind = "title" THEN f.oldRef ELSE ref
RefAfterFailure(ref, f, r) == ref

\* The service rejects request r with err: Promise.all rejects at the first
\* rejection, the catch block sets error, the finally block clears isLoading.
\* A rejection after Promise.all has settled is ignored.
ReplyFail(r, err) ==
  /\ r \in uInflight
  /\ uInflight' = uInflight \ {r}
  /\ uFailed' = TRUE
  /\ LET f == uFlushes[r.flush]
     IN /\ uFlushes' = [uFlushes EXCEPT ![r.flush].outstanding = f.outstanding - 1,
                                        ![r.flush].awaiting = FALSE,
                                        ![r.flush].rejected = @ \cup { r.kind }]
        /\ titleRef' = RefAfterFailure(titleRef, f, r)
        /\ uError' = IF f.awaiting
                     THEN NewError(ErrorMsg(err, "Failed to update note"), r.flush)
                     ELSE uError
        /\ uConsole' = IF f.awaiting THEN uConsole + 1 ELSE uConsole
        /\ uIsLoading' = IF f.awaiting THEN FALSE ELSE uIsLoading
        /\ debouncedUpdate' = IF f.awaiting THEN AfterFailure(debouncedUpdate, f, now)
                              ELSE debouncedUpdate
  /\ UNCHANGED << now, uMounted, uNoteId, uOptions, doc, uReqLog, remote,
                  uCalls, uTitleCb >>
  /\ UNCHANGED << hVars, lVars, mVars >>

\* useRef(initialValue) at a later render: the value debounce(...) built for
\* this render is dropped, the ref keeps its current one.
RefRebuilt(current, options) ==
  [ NewDebounced(options) EXCEPT !.lastArgs = current.lastArgs,
                                 !.lastCallTime = current.lastCallTime,
                                 !.timerId = current.timerId ]
RefAtRender(current, options) == current

\* The component renders again with other arguments.  updateNote is rebuilt
\* for the new noteId (useCallback [noteId]); the ref keeps the debounced
\* function of the first render.
Rerender(noteId, options) ==
  /\ uMounted
  /\ ~TimerDue
  /\ << noteId, options >> # << uNoteId, uOptions >>
  /\ uNoteId' = noteId
  /\ uOptions' = options
  /\ debouncedUpdate' = RefAtRender(debouncedUpdate, options)
  /\ UNCHANGED << now, uMounted, uIsLoading, uError, titleRef, doc,
                  uFlushes, uInflight, uReqLog, remote, uCalls, uConsole, uTitleCb, uFailed >>
  /\ UNCHANGED << hVars, lVars, mVars >>

\* The effect's cleanup at unmount.
Unmount ==
  /\ uMounted
  /\ ~TimerDue
  /\ uMounted' = FALSE
  /\ debouncedUpdate' = Cancel(debouncedUpdate)
  /\ UNCHANGED << now, uNoteId, uOptions, uIsLoading, uError, titleRef, doc,
                  uFlushes, uInflight, uReqLog, remote, uCalls, uConsole, uTitleCb, uFailed >>
  /\ UNCHANGED << hVars, lVars, mVars >>

NextUpdate ==
  \/ \E e \in Editors \cup {NoEditor}, t \in DocTitles : UpdateNote(e, t)
  \/ Tick
  \/ TimerExpired
  \/ \E r \in uInflight : ReplyOk(r)
  \/ \E r \in uInflight, err \in UpdThrown : ReplyFail(r, err)
  \/ \E n \in UpdNoteIds, o \in UpdOptions : Rerender(n, o)
  \/ Unmount

SpecUpdate == InitUpdate /\ [][NextUpdate]_vars


\* ============================================ the promise-returning hooks

HookNames ==
  { "useNote", "useCreateNote", "useNoteContent", "useDeleteNote",
    "useMakeNotePrivate", "useUpdateNotePermissions", "useDuplicateNote" }

\* The five hooks whose action awaits one NoteService method.
SimpleHooks ==
  { "useCreateNote", "useNoteContent", "useDeleteNote", "useMakeNotePrivate",
    "useUpdateNotePermissions" }

\* The NoteService method each of them awaits.
Method(h) ==
  CASE h = "useCreateNote" -> "createNote"
    [] h = "useNoteContent" -> "updateNoteContent"
    [] h = "useDeleteNote" -> "deleteNote"
    [] h = "useMakeNotePrivate" -> "makePrivate"
    [] h = "useUpdateNotePermissions" -> "updateNotePermissions"
    [] h = "useNote" -> "getNote"
    [] OTHER -> "getNote"

\* The fixed message of each hook's catch block.
Fallback(h) ==
  CASE h = "useCreateNote" -> "Failed to create note"
    [] h = "useNoteContent" -> "Failed to update note content"
    [] h = "useDeleteNote" -> "Failed to delete note"
    [] h = "useMakeNotePrivate" -> "Failed to make note private"
    [] h = "useUpdateNotePermissions" -> "Failed to update note permissions"
    [] h = "useDuplicateNote" -> "Failed to duplicate note"
    [] OTHER -> "Failed to fetch note"

\* The hooks that call setNote with the response.
SetsNote(h) == h \in { "useNote", "useCreateNote", "useNoteContent" }

NoteIds == { "n1", "n2" }
SendValues == { "true", "false", Undef }
OrgSlug == "org"

\* The notes at the service: n1 is a workspace note, n2 a private one.
AccessOf(n) == IF n = "n1" THEN "WORKSPACE" ELSE "PRIVATE"
TitleOf(n) == IF n = "n1" THEN "T" ELSE "Untitled"

\* The organizationSlug argument of duplicateNote.
OrgSlugs == { "org", "lab" }

\* What getNote(n) can answer: the note, with or without content.
NoteData(n) ==
  { [id |-> n, title |-> TitleOf(n), access |-> AccessOf(n), content |-> c,
      contentJson |-> j] :
      c \in { "", "<p>" }, j \in { "", "{}" } }

\* What a rejected request carries.  A thrown value that is no Error is told
\* apart from an Error by useNote alone.
ThrownFor(h) == IF h = "useNote" THEN Thrown ELSE UpdThrown

\* The value of a fulfilled updateNotePermissions.
TrueValue == [id |-> "true", title |-> "", access |-> "", content |-> "", contentJson |-> ""]

NoThrown == [kind |-> "none", message |-> ""]

\* A NoteService request as the hooks build it; loadingAt and errorAt are the
\* hook's isLoading and error at the moment the request is issued.
Request(c, method, arg, title, grouping, content, contentJson, st) ==
  [ call |-> c, method |-> method, arg |-> arg, title |-> title, grouping |-> grouping,
    slug |-> IF method = "createNote" THEN OrgSlug ELSE "",
    content |-> content, contentJson |-> contentJson,
    loadingAt |-> st.isLoading, errorAt |-> st.error ]

\* What the service can answer to a request that succeeds.
Responses(r) ==
  CASE r.method = "getNote" -> NoteData(r.arg)
    [] r.method = "createNote" ->
         { [id |-> "new", title |-> r.title, access |-> r.grouping, content |-> "",
            contentJson |-> ""] }
    [] r.method = "updateNoteContent" ->
         { [id |-> r.arg, title |-> "", access |-> "", content |-> r.content,
            contentJson |-> r.contentJson] }
    [] r.method = "updateNotePermissions" -> { TrueValue }
    [] OTHER ->
         { [id |-> r.arg, title |-> "T", access |-> "PRIVATE", content |-> "",
            contentJson |-> ""] }

HookState == [note |-> hNote, isLoading |-> hIsLoading, error |-> hError]

SetHookState(st) ==
  /\ hNote' = st.note
  /\ hIsLoading' = st.isLoading
  /\ hError' = st.error

\* setIsLoading(true); setError(null);
BeginKeepError(st) == [st EXCEPT !.isLoading = TRUE]
Begin(st) == [st EXCEPT !.isLoading = TRUE, !.error = NoError]

\* finally { setIsLoading(false); }
FinallyNothing(st) == st
Finally(st) == [st EXCEPT !.isLoading = FALSE]

\* catch (err) of the six hooks that rethrow: the Error built by call c.
CatchErrorRaw(h, err, c) == NewError(err.message, c)
CatchError(h, err, c) == NewError(ErrorMsg(err, Fallback(h)), c)

Pending(c) == hCalls[c].pc \notin { "resolved", "rejected" }
PendingCalls == { c \in 1..Len(hCalls) : Pending(c) }

\* The last request call c issued.
LastRequestOf(c) ==
  LET rs == SelectSeq(hSvcLog, LAMBDA r : r.call = c) IN rs[Len(rs)]

\* A new call of the hook's action: its record, and every call it overlaps
\* stops being alone.
WithCall(origin, arg, pc) ==
  [ c \in 1..(Len(hCalls) + 1) |->
      IF c <= Len(hCalls)
      THEN [hCalls[c] EXCEPT !.alone = @ /\ ~Pending(c)]
      ELSE [ origin |-> origin, arg |-> arg, pc |-> pc, thrown |-> NoThrown,
             result |-> NullNote, reason |-> NoError, alone |-> PendingCalls = {},
             original |-> NullNote, created |-> NullNote, slug |-> "" ] ]

InitHooksOf(h) ==
  /\ hook = h
  /\ hNote = NullNote
  /\ hIsLoading = FALSE
  /\ hError = NoError
  /\ hCalls = << >>
  /\ hSvcLog = << >>
  /\ nMounted = (h # "useNote")
  /\ nNoteId \in (IF h = "useNote" THEN NoteIds ELSE { "n1" })
  /\ nSend \in (IF h = "useNote" THEN SendValues ELSE { Undef })
  /\ nInitialNote \in (IF h = "useNote" THEN BOOLEAN ELSE { FALSE })

\* The useUpdateNote variables while another hook is looked at.
IdleUpdate ==
  /\ now = 0
  /\ uMounted = FALSE
  /\ uNoteId = "n1"
  /\ uOptions = [debounceMs |-> UndefMs, onTitleUpdate |-> Undef]
  /\ uIsLoading = FALSE
  /\ uError = NoError
  /\ titleRef = ""
  /\ debouncedUpdate = NewDebounced(uOptions)
  /\ doc = [e \in Editors |-> [title |-> NullTitle, body |-> 0]]
  /\ uFlushes = << >>
  /\ uInflight = {}
  /\ uReqLog = << >>
  /\ remote = InitRemote
  /\ uCalls = << >>
  /\ uConsole = 0
  /\ uTitleCb = << >>
  /\ uFailed = FALSE

InitHooks == IdleUpdate /\ IdleList /\ IdleUpload /\ IdleFlag /\ \E h \in HookNames : InitHooksOf(h)

\* ---- the five one-request hooks

\* The request of hook h for argument arg.
SimpleRequest(h, c, arg, st) ==
  CASE h = "useCreateNote" ->
         Request(c, "createNote", "", arg, "WORKSPACE", "", "", st)
    [] h = "useNoteContent" ->
         Request(c, "updateNoteContent", arg, "", "", "<p>", "{}", st)
    [] OTHER -> Request(c, Method(h), arg, "", "", "", "", st)

\* createNote(params), updateNoteContent(params), deleteNote(noteId),
\* makeNotePrivate(noteId), updatePermissions(params), up to the await.
HookCall(arg) ==
  /\ hook \in SimpleHooks
  /\ Len(hCalls) < MaxHookCalls
  /\ LET c == Len(hCalls) + 1
         st == Begin(HookState)
     IN /\ SetHookState(st)
        /\ hSvcLog' = Append(hSvcLog, SimpleRequest(hook, c, arg, st))
        /\ hCalls' = WithCall("manual", arg, Method(hook))
  /\ UNCHANGED << hook, nMounted, nNoteId, nSend, nInitialNote >>
  /\ UNCHANGED << uVars, lVars, mVars >>

\* The awaited request of call c is fulfilled with resp.
HookOk(c, resp) ==
  /\ hook \in SimpleHooks
  /\ c \in PendingCalls
  /\ resp \in Responses(LastRequestOf(c))
  /\ LET st == IF SetsNote(hook) THEN [HookState EXCEPT !.note = resp] ELSE HookState
     IN SetHookState(Finally(st))
  /\ hCalls' = [hCalls EXCEPT ![c].pc = "resolved", ![c].result = resp]
  /\ UNCHANGED << hook, hSvcLog, nMounted, nNoteId, nSend, nInitialNote >>
  /\ UNCHANGED << uVars, lVars, mVars >>

\* The awaited request of call c is rejected with err.
HookFail(c, err) ==
  /\ hook \in SimpleHooks
  /\ c \in PendingCalls
  /\ LET error == CatchError(hook, err, c)
     IN /\ SetHookState(Finally([HookState EXCEPT !.error = error]))
        /\ hCalls' = [hCalls EXCEPT ![c].pc = "rejected", ![c].reason = error,
                                    ![c].thrown = err]
  /\ UNCHANGED << hook, hSvcLog, nMounted, nNoteId, nSend, nInitialNote >>
  /\ UNCHANGED << uVars, lVars, mVars >>

\* ---- useNote

\* options.sendImmediately !== false
EffectFetchesOnlyTrue(send) == send = "true"
EffectFetches(send) == send # "false"

\* err instanceof Error ? err : new Error('Failed to fetch note')
FetchErrorAlwaysNew(err, c) == NewError(Fallback("useNote"), c)
FetchError(err, c) ==
  IF err.kind # "Other"
  THEN [name |-> err.kind, message |-> err.message, src |-> 0]
  ELSE NewError(Fallback("useNote"), c)

\* fetch(), up to the await, for the noteId of the render it was built in.
FetchStart(origin, noteId) ==
  /\ Len(hCalls) < MaxHookCalls
  /\ LET c == Len(hCalls) + 1
         st == Begin(HookState)
     IN /\ SetHookState(st)
        /\ hSvcLog' = Append(hSvcLog, Request(c, "getNote", noteId, "", "", "", "", st))
        /\ hCalls' = WithCall(origin, noteId, "getNote")

\* The effect after the first render.
MountNote ==
  /\ hook = "useNote"
  /\ ~nMounted
  /\ nMounted' = TRUE
  /\ IF EffectFetches(nSend)
     THEN FetchStart("mount", nNoteId)
     ELSE UNCHANGED << hNote, hIsLoading, hError, hCalls, hSvcLog >>
  /\ UNCHANGED << hook, nNoteId, nSend, nInitialNote >>
  /\ UNCHANGED << uVars, lVars, mVars >>

\* A later render with another noteId or another options.sendImmediately:
\* fetch is rebuilt (useCallback [noteId]) and the effect
\* ([fetch, options.sendImmediately]) runs again.
RerenderNote(noteId, send) ==
  /\ hook = "useNote"
  /\ nMounted
  /\ << noteId, send >> # << nNoteId, nSend >>
  /\ nNoteId' = noteId
  /\ nSend' = send
  /\ IF EffectFetches(send)
     THEN FetchStart("render", noteId)
     ELSE UNCHANGED << hNote, hIsLoading, hError, hCalls, hSvcLog >>
  /\ UNCHANGED << hook, nMounted, nInitialNote >>
  /\ UNCHANGED << uVars, lVars, mVars >>

\* The caller calls the returned fetch action.
Fetch ==
  /\ hook = "useNote"
  /\ nMounted
  /\ FetchStart("manual", nNoteId)
  /\ UNCHANGED << hook, nMounted, nNoteId, nSend, nInitialNote >>
  /\ UNCHANGED << uVars, lVars, mVars >>

\* getNote of call c is fulfilled with noteData.
FetchOk(c, noteData) ==
  /\ hook = "useNote"
  /\ c \in PendingCalls
  /\ noteData \in Responses(LastRequestOf(c))
  /\ SetHookState(Finally([HookState EXCEPT !.note = noteData]))
  /\ hCalls' = [hCalls EXCEPT ![c].pc = "resolved", ![c].result = noteData]
  /\ UNCHANGED << hook, hSvcLog, nMounted, nNoteId, nSend, nInitialNote >>
  /\ UNCHANGED << uVars, lVars, mVars >>

\* getNote of call c is rejected with err: the catch block swallows it.
FetchFail(c, err) ==
  /\ hook = "useNote"
  /\ c \in PendingCalls
  /\ SetHookState(Finally([HookState EXCEPT !.error = FetchError(err, c), !.note = NullNote]))
  /\ hCalls' = [hCalls EXCEPT ![c].pc = "resolved", ![c].thrown = err]
  /\ UNCHANGED << hook, hSvcLog, nMounted, nNoteId, nSend, nInitialNote >>
  /\ UNCHANGED << uVars, lVars, mVars >>

\* ---- useDuplicateNote

\* `${originalNote.title} (Copy)`
CopyTitleSame(title) == title
CopyTitle(title) == title \o " (Copy)"

\* originalNote.content || originalNote.contentJson
HasContentHtmlOnly(note) == Truthy(note.content)
HasContent(note) == Truthy(note.content) \/ Truthy(note.contentJson)

\* duplicateNote(noteId, organizationSlug), up to the first await.
DuplicateNote(noteId, organizationSlug) ==
  /\ hook = "useDuplicateNote"
  /\ Len(hCalls) < MaxHookCalls
  /\ LET c == Len(hCalls) + 1
         st == Begin(HookState)
     IN /\ SetHookState(st)
        /\ hSvcLog' = Append(hSvcLog, Request(c, "getNote", noteId, "", "", "", "", st))
        /\ hCalls' = [WithCall("manual", noteId, "getNote") EXCEPT ![c].slug = organizationSlug]
  /\ UNCHANGED << hook, nMounted, nNoteId, nSend, nInitialNote >>
  /\ UNCHANGED << uVars, lVars, mVars >>

\* 1. getNote is fulfilled: create the copy.
DupGotOriginal(c, originalNote) ==
  /\ hook = "useDuplicateNote"
  /\ c \in PendingCalls
  /\ hCalls[c].pc = "getNote"
  /\ originalNote \in Responses(LastRequestOf(c))
  /\ hSvcLog' = Append(hSvcLog,
       [ Request(c, "createNote", "", CopyTitle(originalNote.title), originalNote.access,
                 "", "", HookState) EXCEPT !.slug = hCalls[c].slug ])
  /\ hCalls' = [hCalls EXCEPT ![c].pc = "createNote", ![c].original = originalNote]
  /\ UNCHANGED << hook, hNote, hIsLoading, hError, nMounted, nNoteId, nSend, nInitialNote >>
  /\ UNCHANGED << uVars, lVars, mVars >>

\* 2. createNote is fulfilled: copy the content when there is any, else return.
DupCreated(c, newNote) ==
  /\ hook = "useDuplicateNote"
  /\ c \in PendingCalls
  /\ hCalls[c].pc = "createNote"
  /\ newNote \in Responses(LastRequestOf(c))
  /\ IF HasContent(hCalls[c].original)
     THEN /\ hSvcLog' = Append(hSvcLog,
               Request(c, "updateNoteContent", newNote.id, "", "",
                       hCalls[c].original.content, hCalls[c].original.contentJson,
                       HookState))
          /\ hCalls' = [hCalls EXCEPT ![c].pc = "updateNoteContent", ![c].created = newNote]
          /\ UNCHANGED << hNote, hIsLoading, hError >>
     ELSE /\ SetHookState(Finally(HookState))
          /\ hCalls' = [hCalls EXCEPT ![c].pc = "resolved", ![c].created = newNote,
                                      ![c].result = newNote]
          /\ UNCHANGED hSvcLog
  /\ UNCHANGED << hook, nMounted, nNoteId, nSend, nInitialNote >>
  /\ UNCHANGED << uVars, lVars, mVars >>

\* 3. updateNoteContent is fulfilled: return the new note.
DupCopied(c, resp) ==
  /\ hook = "useDuplicateNote"
  /\ c \in PendingCalls
  /\ hCalls[c].pc = "updateNoteContent"
  /\ resp \in Responses(LastRequestOf(c))
  /\ SetHookState(Finally(HookState))
  /\ hCalls' = [hCalls EXCEPT ![c].pc = "resolved", ![c].result = hCalls[c].created]
  /\ UNCHANGED << hook, hSvcLog, nMounted, nNoteId, nSend, nInitialNote >>
  /\ UNCHANGED << uVars, lVars, mVars >>

\* The requests the catch block of duplicateNote issues for call c: none, the
\* note createNote made is left as it is.
CatchDeletesCopy(c, call, st) ==
  IF call.created # NullNote
  THEN << Request(c, "deleteNote", call.created.id, "", "", "", "", st) >>
  ELSE << >>
CatchRequests(c, call, st) == << >>

\* The awaited request of call c, whichever it is, is rejected with err.
DupFail(c, err) ==
  /\ hook = "useDuplicateNote"
  /\ c \in PendingCalls
  /\ LET error == CatchError(hook, err, c)
     IN /\ SetHookState(Finally([HookState EXCEPT !.error = error]))
        /\ hCalls' = [hCalls EXCEPT ![c].pc = "rejected", ![c].reason = error,
                                    ![c].thrown = err]
  /\ hSvcLog' = hSvcLog \o CatchRequests(c, hCalls[c], HookState)
  /\ UNCHANGED << hook, nMounted, nNoteId, nSend, nInitialNote >>
  /\ UNCHANGED << uVars, lVars, mVars >>

AllResponses ==
  UNION { Responses(hSvcLog[i]) : i \in 1..Len(hSvcLog) }

NextHooks ==
  \/ \E arg \in NoteIds : HookCall(arg)
  \/ \E c \in PendingCalls, resp \in AllResponses : HookOk(c, resp)
  \/ \E c \in PendingCalls, err \in ThrownFor(hook) : HookFail(c, err)
  \/ MountNote
  \/ \E n \in NoteIds, send \in SendValues : RerenderNote(n, send)
  \/ Fetch
  \/ \E c \in PendingCalls, noteData \in AllResponses : FetchOk(c, noteData)
  \/ \E c \in PendingCalls, err \in ThrownFor(hook) : FetchFail(c, err)
  \/ \E n \in NoteIds, slug \in OrgSlugs : DuplicateNote(n, slug)
  \/ \E c \in PendingCalls, originalNote \in AllResponses : DupGotOriginal(c, originalNote)
  \/ \E c \in PendingCalls, newNote \in AllResponses : DupCreated(c, newNote)
  \/ \E c \in PendingCalls, resp \in AllResponses : DupCopied(c, resp)
  \/ \E c \in PendingCalls, err \in ThrownFor(hook) : DupFail(c, err)

SpecHooks == InitHooks /\ [][NextHooks]_vars


\* ================================================================ NoteList

ListTypes == { "workspace", "private" }

\* note.access as it arrives from the API: the three values the component
\* names, and one it does not.
AccessValues == { "WORKSPACE", "SHARED", "PRIVATE", "PUBLIC" }

\* note.updatedDate
UpdatedDates == { "2024-01-01", "2024-01-02" }

\* new Date(s).getTime(), in days
GetTime(s) == IF s = "2024-01-01" THEN 19723 ELSE 19724

\* The arrays of at most MaxNotes notes with distinct ids.
NoteArrays ==
  UNION { { [i \in 1..n |-> [id |-> i, access |-> a[i], updatedDate |-> d[i]]] :
              a \in [1..n -> AccessValues], d \in [1..n -> UpdatedDates] } :
          n \in 0..MaxNotes }

\* The callback of notes.filter
FilterPassNoShared(type, note) ==
  IF type = "workspace" THEN note.access = "WORKSPACE" ELSE note.access = "PRIVATE"
FilterPass(type, note) ==
  IF type = "workspace"
  THEN note.access = "WORKSPACE" \/ note.access = "SHARED"
  ELSE note.access = "PRIVATE"

\* The comparator of .sort: negative when a goes first.
CompareUpdated(a, b) == GetTime(b.updatedDate) - GetTime(a.updatedDate)

\* Array.prototype.sort is stable: insert each element after the elements
\* that do not come after it.
RECURSIVE InsertSorted(_, _)
InsertSorted(sorted, x) ==
  IF sorted = << >> THEN << x >>
  ELSE IF CompareUpdated(Head(sorted), x) <= 0
       THEN << Head(sorted) >> \o InsertSorted(Tail(sorted), x)
       ELSE << x >> \o sorted

RECURSIVE SortNotes(_)
SortNotes(s) ==
  IF s = << >> THEN << >>
  ELSE InsertSorted(SortNotes(SubSeq(s, 1, Len(s) - 1)), s[Len(s)])

filteredAndSortedNotes(notes, type) ==
  SortNotes(SelectSeq(notes, LAMBDA note : FilterPass(type, note)))

\* What NoteList returns.
ShowsSkeletonLoadingOnly(notes, isLoading) == isLoading
ShowsSkeleton(notes, isLoading) == isLoading \/ Len(notes) = 0

NoteListView(notes, type, isLoading) ==
  IF ShowsSkeleton(notes, isLoading)
  THEN [kind |-> "skeleton", text |-> "", items |-> << >>]
  ELSE IF Len(filteredAndSortedNotes(notes, type)) = 0
       THEN [kind |-> "empty",
             text |-> IF type = "workspace" THEN "No workspace notes" ELSE "No private notes",
             items |-> << >>]
       ELSE [kind |-> "list", text |-> "", items |-> filteredAndSortedNotes(notes, type)]

InitList ==
  /\ IdleUpdate
  /\ IdleHooks
  /\ IdleUpload
  /\ IdleFlag
  /\ lNotes \in NoteArrays
  /\ lType \in ListTypes
  /\ lIsLoading \in BOOLEAN
  /\ lView = NoteListView(lNotes, lType, lIsLoading)

\* The parent renders the list again with other props.
RenderNoteList(notes, type, isLoading) ==
  /\ << notes, type, isLoading >> # << lNotes, lType, lIsLoading >>
  /\ lNotes' = notes
  /\ lType' = type
  /\ lIsLoading' = isLoading
  /\ lView' = NoteListView(notes, type, isLoading)
  /\ UNCHANGED << uVars, hVars, mVars >>

NextList ==
  \E notes \in NoteArrays, type \in ListTypes, isLoading \in BOOLEAN :
    RenderNoteList(notes, type, isLoading)

SpecList == InitList /\ [][NextList]_vars


\* ------------------------------------------------------- NoteList: claims

\* The notes of the array whose access is one of `accesses`.
NotesWithAccess(notes, accesses) ==
  { notes[i] : i \in { j \in 1..Len(notes) : notes[j].access \in accesses } }

\* The notes a list of the given type holds, each once.
ShownBy(type) == SeqToSet(filteredAndSortedNotes(lNotes, type))

\* C11: the workspace list holds exactly the notes whose access is WORKSPACE
\* or SHARED and the private list exactly those whose access is PRIVATE, each
\* once; so a note with one of the three access values is in exactly one of
\* the two lists, and the items the component lists are those of its type.
C11_FilterByAccess ==
  /\ ShownBy("workspace") = NotesWithAccess(lNotes, { "WORKSPACE", "SHARED" })
  /\ ShownBy("private") = NotesWithAccess(lNotes, { "PRIVATE" })
  /\ \A t \in ListTypes :
       Len(filteredAndSortedNotes(lNotes, t)) = Cardinality(ShownBy(t))
  /\ \A i \in 1..Len(lNotes) :
       lNotes[i].access \in { "WORKSPACE", "SHARED", "PRIVATE" } =>
         /\ lNotes[i] \in ShownBy("workspace") \cup ShownBy("private")
         /\ lNotes[i] \notin ShownBy("workspace") \cap ShownBy("private")
  /\ lView.kind = "list" =>
       SeqToSet(lView.items) =
         NotesWithAccess(lNotes, IF lType = "workspace" THEN { "WORKSPACE", "SHARED" }
                                 ELSE { "PRIVATE" })

\* C11 witness: a workspace list given a SHARED note and a PRIVATE note lists
\* the SHARED one only.
C11_Witness ==
  /\ lType = "workspace"
  /\ Len(lNotes) = 2
  /\ lNotes[1].access = "SHARED"
  /\ lNotes[2].access = "PRIVATE"
  /\ lView.kind = "list"
  /\ lView.items = << lNotes[1] >>


\* ------------------------------------------------ useUpdateNote: claims

Wait == debouncedUpdate.wait
NumCalls == Len(uCalls)
NumFlushes == Len(uFlushes)

\* Call i is the last call of its burst: no call follows it by less than the
\* debounce delay.
BurstEnd(i) == i = NumCalls \/ uCalls[i + 1].t - uCalls[i].t >= Wait
BurstEnds == SelectSeq([i \in 1..NumCalls |-> i], BurstEnd)
NumBursts == Len(BurstEnds)
LastCallOf(k) == uCalls[BurstEnds[k]]

\* The delay of burst k has run out (or its timer is gone).
BurstOver(k) == k < NumBursts \/ debouncedUpdate.timerId = NoTimer

ReqsOf(k, kind) == SelectSeq(uReqLog, LAMBDA r : r.flush = k /\ r.kind = kind)

\* Flush k is the trailing-edge flush of burst k with the last call's arguments.
FlushOfBurst(k) ==
  /\ k <= NumBursts
  /\ uFlushes[k].t >= LastCallOf(k).t + Wait
  /\ uFlushes[k].editor = LastCallOf(k).editor
  /\ uFlushes[k].noteId = LastCallOf(k).noteId

OneContentRequest(k) ==
  /\ Len(ReqsOf(k, "content")) = 1
  /\ ReqsOf(k, "content")[1].noteId = uFlushes[k].noteId
  /\ ReqsOf(k, "content")[1].editor = uFlushes[k].editor

\* C1 as stated: every burst whose delay has run out has produced exactly one
\* flush, on the trailing edge, with the last call's editor and noteId, and
\* that flush issued exactly one updateNoteContent request for them.
C1_EveryBurstOneRequest ==
  /\ NumFlushes <= NumBursts
  /\ \A k \in 1..NumBursts :
       BurstOver(k) => k <= NumFlushes /\ FlushOfBurst(k) /\ OneContentRequest(k)

\* C1 amended: a burst produces exactly one flush, on the trailing edge and
\* never earlier, with the last call's editor and noteId, provided the
\* component is still mounted when the delay runs out (an unmount loses the
\* pending burst only); the flush issues exactly one updateNoteContent
\* request for that editor and noteId when the noteId is truthy, none otherwise.
C1_TrailingFlushPerBurst ==
  /\ NumFlushes <= NumBursts
  /\ \A k \in 1..NumFlushes : FlushOfBurst(k)
  /\ \A k \in 1..NumFlushes :
       IF Truthy(uFlushes[k].noteId)
       THEN OneContentRequest(k)
       ELSE Len(ReqsOf(k, "content")) = 0 /\ Len(ReqsOf(k, "title")) = 0
  /\ \A k \in 1..NumBursts : BurstOver(k) /\ uMounted => k <= NumFlushes
  /\ NumFlushes >= NumBursts - 1

\* C1 witness: a burst of two calls with different editors and noteIds has
\* been flushed once, after the delay, and the request is out.
C1_Witness ==
  /\ NumCalls = 2 /\ NumBursts = 1 /\ NumFlushes = 1
  /\ uCalls[1].editor # uCalls[2].editor
  /\ uCalls[1].noteId # uCalls[2].noteId
  /\ uCalls[1].t < uCalls[2].t
  /\ Truthy(uCalls[1].noteId)
  /\ uFlushes[1].passed
  /\ Len(ReqsOf(1, "content")) = 1

PassedFlushesFor(n) ==
  SelectSeq(uFlushes, LAMBDA f : f.passed /\ f.noteId = n)

Quiescent == uInflight = {} /\ debouncedUpdate.timerId = NoTimer

\* C2 as stated (last write wins): once every flush has fired and every
\* request has succeeded, the service holds, for each note, the content of
\* the most recently fired flush for it.
C2_LastWriteWins ==
  Quiescent /\ ~uFailed =>
    \A n \in DOMAIN remote :
      LET fs == PassedFlushesFor(n)
      IN Len(fs) > 0 => remote[n].content = fs[Len(fs)].body

\* C3: after unmount no timer is armed, no flush runs and no request is issued.
C3_NoFlushAfterUnmount ==
  /\ [](~uMounted => debouncedUpdate.timerId = NoTimer)
  /\ [][~uMounted => Len(uFlushes') = Len(uFlushes) /\ uReqLog' = uReqLog]_vars

\* C3 witness: unmounted with a burst pending, and its delay has run out
\* without a flush.
C3_Witness ==
  /\ ~uMounted
  /\ NumCalls > 0
  /\ NumFlushes < NumBursts
  /\ now >= uCalls[NumCalls].t + Wait

\* The title of the last updateNoteTitle request issued before flush k, the
\* empty string when there was none.
TitleBefore(k) ==
  LET earlier == SelectSeq(uReqLog, LAMBDA r : r.kind = "title" /\ r.flush < k)
  IN IF Len(earlier) = 0 THEN "" ELSE earlier[Len(earlier)].value

\* C4: a flush that passes its guards issues updateNoteContent exactly once,
\* and updateNoteTitle (once, with the title read) if and only if the title
\* read from the editor differs from the title of the previous title request.
C4_TitleIffChanged ==
  \A k \in 1..NumFlushes :
    uFlushes[k].passed =>
      /\ Len(ReqsOf(k, "content")) = 1
      /\ Len(ReqsOf(k, "title")) = (IF uFlushes[k].newTitle # TitleBefore(k) THEN 1 ELSE 0)
      /\ \A i \in 1..Len(ReqsOf(k, "title")) :
           ReqsOf(k, "title")[i].value = uFlushes[k].newTitle

\* C4 witness: a flush with a title request, then a flush with the same title
\* and no title request.
C4_Witness ==
  /\ NumFlushes = 2
  /\ uFlushes[1].passed /\ uFlushes[2].passed
  /\ Len(ReqsOf(1, "title")) = 1
  /\ Len(ReqsOf(2, "title")) = 0
  /\ Len(ReqsOf(2, "content")) = 1
  /\ uFlushes[2].newTitle = "A"

\* C10: no retry.  Requests are issued only by a flush at the expiry of the
\* timer, at most two per flush; a timer is armed only by an updateNote call,
\* for the full delay; so a rejection is followed by no request until
\* updateNote is called again and the delay has run out.
C10_NoRetry ==
  /\ [](NumFlushes <= NumCalls)
  /\ [](\A k \in 1..NumFlushes :
          Len(ReqsOf(k, "content")) <= 1 /\ Len(ReqsOf(k, "title")) <= 1)
  /\ [][uReqLog' # uReqLog => TimerDue /\ Len(uFlushes') = Len(uFlushes) + 1]_vars
  /\ [][debouncedUpdate'.timerId \notin {NoTimer, debouncedUpdate.timerId} =>
          /\ Len(uCalls') = Len(uCalls) + 1
          /\ debouncedUpdate'.timerId = now + Wait]_vars

\* C10 witness: a request was rejected, the error is set, and the hook has
\* come to rest with nothing in flight and no timer armed.
C10_Witness ==
  /\ uFailed
  /\ uError # NoError
  /\ ~uIsLoading
  /\ Quiescent
  /\ now = MaxTimeMs

\* ------------------------------------- promise-returning hooks: claims

NumHookCalls == Len(hCalls)

\* Request i is the first request of its call.
FirstRequest(i) == \A j \in 1..(i - 1) : hSvcLog[j].call # hSvcLog[i].call

\* C5: a call of any of the seven actions has isLoading true and error null
\* when its first request is issued; run in isolation it keeps them so while
\* it is pending, and isLoading is false once it has settled, fulfilled or
\* rejected.
C5_LoadingAroundCall ==
  /\ \A i \in 1..Len(hSvcLog) :
       FirstRequest(i) => hSvcLog[i].loadingAt /\ hSvcLog[i].errorAt = NoError
  /\ \A c \in 1..NumHookCalls :
       hCalls[c].alone /\ Pending(c) => hIsLoading /\ hError = NoError
  /\ \A c \in 1..NumHookCalls :
       hCalls[c].alone /\ ~Pending(c) /\ c = NumHookCalls => ~hIsLoading

\* C5 witness: a duplicateNote call, alone, was rejected at its second request
\* after an earlier call had left an error behind.
C5_Witness ==
  /\ hook = "useDuplicateNote"
  /\ NumHookCalls = 2
  /\ hCalls[1].pc = "rejected" /\ hCalls[1].alone
  /\ hCalls[2].pc = "rejected" /\ hCalls[2].alone
  /\ Len(SelectSeq(hSvcLog, LAMBDA r : r.call = 2)) = 2
  /\ ~hIsLoading

\* C6: in the six rethrowing hooks a failed service call sets error to an
\* Error with the NoteError's message, or the hook's fallback message for any
\* other failure, rejects the promise with that same Error, and leaves the
\* hook's note state as it was; no failure is swallowed.
C6_FailureSetsError ==
  /\ [](hook # "useNote" =>
          \A c \in 1..NumHookCalls :
            hCalls[c].thrown # NoThrown => hCalls[c].pc = "rejected")
  /\ [][\A c \in 1..NumHookCalls :
          Pending(c) /\ hCalls'[c].pc = "rejected" =>
            /\ hError' = hCalls'[c].reason
            /\ hError'.name = "Error"
            /\ hError'.message =
                 (IF hCalls'[c].thrown.kind = "NoteError"
                  THEN hCalls'[c].thrown.message
                  ELSE Fallback(hook))
            /\ hNote' = hNote]_vars

\* C6 witness: createNote succeeded once and set note, then failed with a
\* failure that is no NoteError; note still holds the first response.
C6_Witness ==
  /\ hook = "useCreateNote"
  /\ NumHookCalls = 2
  /\ hCalls[1].pc = "resolved"
  /\ hCalls[2].pc = "rejected"
  /\ hCalls[2].thrown.kind = "Error"
  /\ hNote = hCalls[1].result
  /\ hNote # NullNote
  /\ hError.message = "Failed to create note"

\* C7: useNote.fetch never rejects; after a fetch run in isolation, a failed
\* getNote leaves error set (the thrown Error itself, or a new Error('Failed
\* to fetch note') for a thrown value that is no Error) and note null, and a
\* fulfilled getNote leaves note = the fetched data and error null.
C7_FetchNeverRejects ==
  hook = "useNote" =>
    /\ \A c \in 1..NumHookCalls : hCalls[c].pc # "rejected"
    /\ \A c \in 1..NumHookCalls :
         hCalls[c].alone /\ ~Pending(c) /\ c = NumHookCalls =>
           IF hCalls[c].thrown = NoThrown
           THEN /\ hNote = hCalls[c].result
                /\ hNote.id = hCalls[c].arg
                /\ hError = NoError
           ELSE /\ hNote = NullNote
                /\ hError =
                     (IF hCalls[c].thrown.kind = "Other"
                      THEN [name |-> "Error", message |-> "Failed to fetch note", src |-> c]
                      ELSE [name |-> hCalls[c].thrown.kind,
                            message |-> hCalls[c].thrown.message, src |-> 0])

\* C7 witness: a fetch put a note in place, and a later fetch, alone, failed
\* with a thrown Error: note is null again and error is that Error.
C7_Witness ==
  /\ hook = "useNote"
  /\ NumHookCalls = 2
  /\ hCalls[1].alone /\ hCalls[1].thrown = NoThrown
  /\ hCalls[2].alone /\ hCalls[2].pc = "resolved" /\ hCalls[2].thrown.kind = "Error"
  /\ hNote = NullNote
  /\ hError.message = "network down"

\* C8 as documented: when the caller supplies an initialNote, the mount effect
\* issues no getNote request.
C8_InitialNoteSkipsFetch ==
  hook = "useNote" /\ nInitialNote =>
    \A c \in 1..NumHookCalls : hCalls[c].origin # "mount"

\* The step issued exactly one request, getNote for the noteId of the new render.
IssuedGetNote ==
  /\ Len(hSvcLog') = Len(hSvcLog) + 1
  /\ hSvcLog'[Len(hSvcLog')].method = "getNote"
  /\ hSvcLog'[Len(hSvcLog')].arg = nNoteId'

\* C9: with sendImmediately other than false (undefined included) useNote
\* issues getNote at mount and at every change of noteId; while it is false no
\* request is issued except by a call of the returned fetch action.
C9_FetchOnMountAndChange ==
  /\ [][hook = "useNote" /\ ~nMounted /\ nMounted' /\ nSend' # "false" => IssuedGetNote]_vars
  /\ [][hook = "useNote" /\ nMounted /\ nNoteId' # nNoteId /\ nSend' # "false" =>
          IssuedGetNote]_vars
  /\ [][hook = "useNote" /\ nSend' = "false" /\ hSvcLog' # hSvcLog =>
          hCalls'[Len(hCalls')].origin = "manual"]_vars

\* C9 witness: sendImmediately undefined; one getNote from the mount effect and
\* one, for the other noteId, from the render that changed noteId.
C9_Witness ==
  /\ hook = "useNote"
  /\ nMounted
  /\ nSend = Undef
  /\ NumHookCalls = 2
  /\ hCalls[1].origin = "mount"
  /\ hCalls[2].origin = "render"
  /\ hSvcLog[1].arg # hSvcLog[2].arg
  /\ hSvcLog[2].arg = nNoteId

\* The requests call c has issued, in order.
ReqsOfCall(c) == SelectSeq(hSvcLog, LAMBDA r : r.call = c)

DupOrder == << "getNote", "createNote", "updateNoteContent" >>

C13_LoadingWhileInFlight == PendingCalls # {} => hIsLoading

\* C14 as stated: in useNote, whenever no fetch is in flight, note and error
\* are not both non-null.
C14_NoteOrError ==
  hook = "useNote" /\ PendingCalls = {} => ~(hNote # NullNote /\ hError # NoError)

\* C15 as stated: in useNote, when the render that changed noteId from A to B
\* started the fetch for B and both fetches have been fulfilled, note is the
\* note fetched for B, the current noteId.
C15_NoteOfCurrentId ==
  /\ hook = "useNote"
  /\ NumHookCalls = 2
  /\ PendingCalls = {}
  /\ hCalls[2].origin = "render"
  /\ hCalls[1].arg # hCalls[2].arg
  /\ hCalls[2].arg = nNoteId
  /\ hCalls[1].thrown = NoThrown
  /\ hCalls[2].thrown = NoThrown
  => hNote = hCalls[2].result /\ hNote.id = nNoteId

\* ------------------------------------- useUpdateNote: failures and options

\* The title of the last updateNoteTitle request issued so far.
LastTitleRequested == TitleBefore(NumFlushes + 1)

\* C16: titleRef holds the title of the last updateNoteTitle request from the
\* moment the request is issued, whether it is in flight, fulfilled or
\* rejected; a rejection changes neither titleRef nor the service's store; so
\* a flush that reads the same title as the flush before it that issued a
\* title request issues none, also when that request was rejected.
C16_TitleRefNotRolledBack ==
  /\ [](titleRef = LastTitleRequested)
  /\ [](\A j \in 1..NumFlushes : \A k \in (j + 1)..NumFlushes :
          /\ Len(ReqsOf(j, "title")) = 1
          /\ \A i \in (j + 1)..k : uFlushes[i].passed /\ uFlushes[i].newTitle = uFlushes[j].newTitle
          => Len(ReqsOf(k, "title")) = 0)
  /\ [][\A k \in 1..NumFlushes :
          uFlushes'[k].rejected # uFlushes[k].rejected =>
            titleRef' = titleRef /\ remote' = remote]_vars

\* C16 witness: the title request of the first flush was rejected; the second
\* flush read the same title, issued the content request only, and succeeded;
\* the hook is at rest and the service never got the title.
C16_Witness ==
  /\ NumFlushes = 2
  /\ uFlushes[1].passed /\ uFlushes[2].passed
  /\ uFlushes[1].noteId = uFlushes[2].noteId
  /\ uFlushes[1].newTitle = "A" /\ uFlushes[2].newTitle = "A"
  /\ "title" \in uFlushes[1].rejected
  /\ uFlushes[2].rejected = {}
  /\ uFlushes[2].t > uFlushes[1].t
  /\ Len(ReqsOf(2, "title")) = 0
  /\ Quiescent
  /\ titleRef = "A"
  /\ remote[uFlushes[1].noteId].title = ""

\* The requests answered in the step; the step fulfilled r when the flush of
\* r recorded no rejection.
Answered == uInflight \ uInflight'
Fulfilled(r) == r \in Answered /\ uFlushes'[r.flush].rejected = uFlushes[r.flush].rejected

\* C17: onTitleUpdate is called only in the step that fulfils an
\* updateNoteTitle request, once, with the title of that request; so there is
\* no call for a flush that issued no title request or whose title request was
\* rejected; and the fulfilment of a title request calls it at once, whatever
\* has become of the content request of the same flush.
C17_TitleCallback ==
  /\ [][uTitleCb' # uTitleCb =>
          \E r \in Answered :
            /\ r.kind = "title"
            /\ Fulfilled(r)
            /\ uTitleCb' = Append(uTitleCb,
                 [cb |-> debouncedUpdate.options.onTitleUpdate, title |-> r.value,
                  flush |-> r.flush])]_vars
  /\ [](\A j \in 1..Len(uTitleCb) :
          LET k == uTitleCb[j].flush
          IN /\ uTitleCb[j].cb # Undef
             /\ Len(ReqsOf(k, "title")) = 1
             /\ uFlushes[k].newTitle # uFlushes[k].oldRef
             /\ uTitleCb[j].title = uFlushes[k].newTitle
             /\ "title" \notin uFlushes[k].rejected
             /\ \A i \in 1..Len(uTitleCb) : uTitleCb[i].flush = k => i = j)
  /\ [][\A r \in Answered :
          r.kind = "title" /\ Fulfilled(r) /\ debouncedUpdate.options.onTitleUpdate # Undef =>
            Len(uTitleCb') = Len(uTitleCb) + 1]_vars

\* C17 witness: onTitleUpdate has been called for the first flush while the
\* content request of that flush is still in flight.
C17_Witness ==
  /\ Len(uTitleCb) = 1
  /\ uTitleCb[1].flush = 1
  /\ uTitleCb[1].title = "A"
  /\ remote[uFlushes[1].noteId].title = "A"
  /\ \E r \in uInflight : r.flush = 1 /\ r.kind = "content"
  /\ uIsLoading

\* C18 as stated: when the Promise.all of a flush settles, isLoading is false;
\* error is an Error with the NoteError's message or 'Failed to update note'
\* when a request of the flush was rejected, and null when every request of
\* the flush was fulfilled.
C18_FlushOutcome ==
  [][\A k \in 1..NumFlushes :
       uFlushes[k].awaiting /\ ~uFlushes'[k].awaiting =>
         /\ ~uIsLoading'
         /\ IF uFlushes'[k].rejected = {}
            THEN uError' = NoError
            ELSE /\ uError'.name = "Error"
                 /\ uError'.message \in { "note service error", "Failed to update note" }]_vars

\* The step is an updateNote call that logged to the console and returned.
RefusedCall ==
  uConsole' = uConsole + 1 /\ uFlushes' = uFlushes /\ uInflight' = uInflight

\* The step is a run of the debounced function with a falsy editor or noteId.
RefusedFlush ==
  /\ Len(uFlushes') = Len(uFlushes) + 1
  /\ ~Truthy(debouncedUpdate.lastArgs.editor) \/ ~Truthy(debouncedUpdate.lastArgs.noteId)

\* C19: an updateNote call with an undefined editor arms no timer and records
\* no arguments; a run of the debounced function with a falsy editor or a
\* falsy noteId issues no request; both leave isLoading, error and titleRef
\* as they were.
C19_Guards ==
  /\ [][RefusedCall =>
          /\ debouncedUpdate' = debouncedUpdate
          /\ uReqLog' = uReqLog
          /\ uIsLoading' = uIsLoading /\ uError' = uError /\ titleRef' = titleRef]_vars
  /\ [][RefusedFlush =>
          /\ uReqLog' = uReqLog
          /\ uInflight' = uInflight
          /\ uConsole' = uConsole + 1
          /\ uIsLoading' = uIsLoading /\ uError' = uError /\ titleRef' = titleRef]_vars
  /\ [](\A k \in 1..NumFlushes :
          ~Truthy(uFlushes[k].editor) \/ ~Truthy(uFlushes[k].noteId) =>
            Len(ReqsOf(k, "content")) = 0 /\ Len(ReqsOf(k, "title")) = 0)

\* C19 witness: updateNote(undefined) was refused, then an updateNote call
\* made while noteId was empty was flushed and refused by the guard; nothing
\* was requested and the state is the initial one.
C19_Witness ==
  /\ uConsole = 2
  /\ NumCalls = 1
  /\ NumFlushes = 1
  /\ uFlushes[1].noteId = ""
  /\ ~uFlushes[1].passed
  /\ doc[uFlushes[1].editor].title = "A"
  /\ uReqLog = << >>
  /\ ~uIsLoading /\ uError = NoError /\ titleRef = ""

\* C20: the debounced function is the one built at the first render: its
\* delay and its onTitleUpdate are those of the first options and no render
\* changes them, so every flush fires the first delay after the last call of
\* its burst (at the first reading of the clock that is not before it) and
\* every callback called is the first one; the noteId of a call
\* is the noteId of the render the call is made in, and the flush and its
\* requests carry the noteId of the last call.
C20_CreatedOnce ==
  /\ debouncedUpdate.options = uOptions
  /\ debouncedUpdate.wait = WaitOf(uOptions)
  /\ [][/\ debouncedUpdate'.options = debouncedUpdate.options
        /\ debouncedUpdate'.wait = debouncedUpdate.wait]_vars
  /\ [](\A k \in 1..NumFlushes :
          /\ uFlushes[k].t >= LastCallOf(k).t + debouncedUpdate.wait
          /\ uFlushes[k].t < LastCallOf(k).t + debouncedUpdate.wait + TickMs
          /\ uFlushes[k].noteId = LastCallOf(k).noteId
          /\ \A i \in 1..Len(uReqLog) :
               uReqLog[i].flush = k => uReqLog[i].noteId = LastCallOf(k).noteId)
  /\ [](\A j \in 1..Len(uTitleCb) : uTitleCb[j].cb = debouncedUpdate.options.onTitleUpdate)
  /\ [][Len(uCalls') > Len(uCalls) => uCalls'[Len(uCalls')].noteId = uNoteId]_vars

\* C20 witness: the first render had the default delay and a callback; a
\* later render set debounceMs and dropped the callback, and noteId changed
\* between two calls of one burst; the flush fired 2000 ms after the second
\* call, for the second call's noteId, and the first callback was called.
C20_Witness ==
  /\ uOptions = [debounceMs |-> CustomDebounceMs, onTitleUpdate |-> Undef]
  /\ debouncedUpdate.wait = DefaultDebounceMs
  /\ NumCalls = 2 /\ NumFlushes = 1
  /\ uCalls[1].noteId # uCalls[2].noteId
  /\ uCalls[2].t > uCalls[1].t
  /\ uFlushes[1].t = uCalls[2].t + DefaultDebounceMs
  /\ uFlushes[1].noteId = uCalls[2].noteId
  /\ Len(uTitleCb) = 1
  /\ uTitleCb[1].cb = "cb1"

\* ------------------------------------------ useDuplicateNote: the copy

\* C21: when updateNoteContent of a duplicateNote call is rejected after
\* createNote was fulfilled, the step rejects the promise with the Error it
\* sets as error, sets isLoading false and issues no request; the call keeps
\* the note createNote returned, and neither it nor any other call ever
\* issues deleteNote or any request after the rejected one.
C21_NoRollback ==
  /\ [][hook = "useDuplicateNote" =>
          \A c \in 1..NumHookCalls :
            hCalls[c].pc = "updateNoteContent" /\ hCalls'[c].pc = "rejected" =>
              /\ hSvcLog' = hSvcLog
              /\ hCalls'[c].created = hCalls[c].created
              /\ hCalls'[c].created.id = "new"
              /\ hCalls'[c].reason.name = "Error"
              /\ hError' = hCalls'[c].reason
              /\ ~hIsLoading']_vars
  /\ [](hook = "useDuplicateNote" =>
          /\ \A i \in 1..Len(hSvcLog) : hSvcLog[i].method # "deleteNote"
          /\ \A c \in 1..NumHookCalls :
               hCalls[c].pc = "rejected" /\ hCalls[c].created # NullNote =>
                 /\ Len(ReqsOfCall(c)) = 3
                 /\ ReqsOfCall(c)[3].method = "updateNoteContent"
                 /\ ReqsOfCall(c)[3].arg = hCalls[c].created.id)

\* C21 witness: a duplicateNote call was rejected at updateNoteContent: the
\* copy exists, three requests were issued, error is set, isLoading is false.
C21_Witness ==
  /\ hook = "useDuplicateNote"
  /\ NumHookCalls = 1
  /\ hCalls[1].pc = "rejected"
  /\ hCalls[1].created.id = "new"
  /\ hCalls[1].thrown.kind = "Error"
  /\ Len(hSvcLog) = 3
  /\ hError.message = "Failed to duplicate note"
  /\ ~hIsLoading

\* C22: once createNote is fulfilled, a duplicateNote call issues
\* updateNoteContent, for the new note and with the original's content and
\* contentJson, if and only if the original's content or contentJson is
\* non-empty; otherwise it has resolved with the new note after the two
\* requests getNote and createNote.
C22_ContentCopiedIffAny ==
  hook = "useDuplicateNote" =>
    \A c \in 1..NumHookCalls :
      LET call == hCalls[c]
          rs == ReqsOfCall(c)
      IN call.created # NullNote =>
           IF call.original.content # "" \/ call.original.contentJson # ""
           THEN /\ Len(rs) = 3
                /\ rs[3].method = "updateNoteContent"
                /\ rs[3].arg = call.created.id
                /\ rs[3].content = call.original.content
                /\ rs[3].contentJson = call.original.contentJson
           ELSE /\ Len(rs) = 2
                /\ rs[1].method = "getNote" /\ rs[2].method = "createNote"
                /\ call.pc = "resolved"
                /\ call.result = call.created

\* C22 witness: one call copied a note that has a contentJson and no content
\* with three requests; another copied an empty note and resolved after two.
C22_Witness ==
  /\ hook = "useDuplicateNote"
  /\ NumHookCalls = 2
  /\ hCalls[1].pc = "resolved" /\ hCalls[2].pc = "resolved"
  /\ hCalls[1].original.content = "" /\ hCalls[1].original.contentJson = "{}"
  /\ Len(ReqsOfCall(1)) = 3
  /\ hCalls[2].original.content = "" /\ hCalls[2].original.contentJson = ""
  /\ Len(ReqsOfCall(2)) = 2
  /\ hCalls[2].result.id = "new"

\* ------------------------------------------------ NoteList: what is shown

\* The notes of the array a list of type lType is to hold.
NotesOfType ==
  NotesWithAccess(lNotes, IF lType = "workspace" THEN { "WORKSPACE", "SHARED" }
                          ELSE { "PRIVATE" })

\* C23: NoteList returns the skeleton exactly when isLoading is true or notes
\* is empty; the 'No workspace notes' / 'No private notes' message exactly
\* when isLoading is false, notes is non-empty and no note passes the filter
\* of the type; and in every other case the list of the notes that pass it.
C23_SkeletonEmptyOrList ==
  /\ lView.kind \in { "skeleton", "empty", "list" }
  /\ lView.kind = "skeleton" <=> (lIsLoading \/ Len(lNotes) = 0)
  /\ lView.kind = "empty" <=> (~lIsLoading /\ Len(lNotes) > 0 /\ NotesOfType = {})
  /\ lView.kind = "empty" =>
       lView.text = (IF lType = "workspace" THEN "No workspace notes" ELSE "No private notes")
  /\ lView.kind = "list" =>
       /\ SeqToSet(lView.items) = NotesOfType
       /\ Len(lView.items) = Cardinality(NotesOfType)
  /\ lView.kind # "list" => lView.items = << >>

\* C23 witness: a private list, not loading, given one workspace note shows
\* 'No private notes'.
C23_Witness ==
  /\ lType = "private"
  /\ ~lIsLoading
  /\ Len(lNotes) = 1
  /\ lNotes[1].access = "WORKSPACE"
  /\ lView.kind = "empty"
  /\ lView.text = "No private notes"

\* ======================================================== ImageUploadModal

\* What a drop or a file input change carries: no file, two images, a PDF.
DroppedFiles == { Null, "a.png", "b.gif", "c.pdf" }

\* file.type
FileType(file) ==
  CASE file = "a.png" -> "image/png"
    [] file = "b.gif" -> "image/gif"
    [] OTHER -> "application/pdf"

\* file && file.type.startsWith('image/')
IsImage(file) == file # Null /\ SubSeq(FileType(file), 1, 6) = "image/"

\* result.absoluteUrl of a fulfilled uploadAsset
AbsoluteUrls == { "https://cdn/1", "https://cdn/2" }

\* What a rejected uploadAsset leaves in the hook's error.
UploadErrors == { "Upload failed" }

\* The parent takes the modal away when onClose is called.
ModalOpen == \A i \in 1..Len(iEvents) : iEvents[i].fn # "onClose"

\* useAssetUpload: uploadAsset sets loading and clears error when called,
\* clears loading when the request settles, and on a failure keeps the error
\* and rejects.
UploadAssetCalled == isUploading' = TRUE /\ uploadError' = Null
UploadAssetFulfilled == isUploading' = FALSE /\ UNCHANGED uploadError
UploadAssetRejected(err) == isUploading' = FALSE /\ uploadError' = err

\* disabled={!selectedFile || isUploading}
UploadDisabled == selectedFile = Null \/ isUploading

InitUpload ==
  /\ IdleUpdate
  /\ IdleHooks
  /\ IdleList
  /\ IdleFlag
  /\ IdleUpload

handleDragOver ==
  /\ ModalOpen
  /\ isDragging' = TRUE
  /\ UNCHANGED << selectedFile, validationError, isUploading, uploadError, iUploads, iEvents >>
  /\ UNCHANGED << uVars, hVars, lVars, fVars >>

handleDragLeave ==
  /\ ModalOpen
  /\ isDragging' = FALSE
  /\ UNCHANGED << selectedFile, validationError, isUploading, uploadError, iUploads, iEvents >>
  /\ UNCHANGED << uVars, hVars, lVars, fVars >>

\* The body shared by handleDrop and handleFileSelect.
TakeFile(file) ==
  IF IsImage(file)
  THEN selectedFile' = file /\ validationError' = Null
  ELSE validationError' = "Please select an image file" /\ UNCHANGED selectedFile

handleDrop(file) ==
  /\ ModalOpen
  /\ isDragging' = FALSE
  /\ TakeFile(file)
  /\ UNCHANGED << isUploading, uploadError, iUploads, iEvents >>
  /\ UNCHANGED << uVars, hVars, lVars, fVars >>

handleFileSelect(file) ==
  /\ ModalOpen
  /\ TakeFile(file)
  /\ UNCHANGED << isDragging, isUploading, uploadError, iUploads, iEvents >>
  /\ UNCHANGED << uVars, hVars, lVars, fVars >>

\* A click on the Upload button: handleUpload up to the await, with
\* uploadAsset setting the hook's loading and clearing its error.
handleUpload ==
  /\ ModalOpen
  /\ ~UploadDisabled
  /\ Len(iUploads) < MaxUploads
  /\ IF selectedFile = Null
     THEN UNCHANGED << validationError, isUploading, uploadError, iUploads >>
     ELSE /\ validationError' = Null
          /\ UploadAssetCalled
          /\ iUploads' = Append(iUploads,
               [file |-> selectedFile, purpose |-> "comment", status |-> "pending",
                url |-> Null])
  /\ UNCHANGED << isDragging, selectedFile, iEvents >>
  /\ UNCHANGED << uVars, hVars, lVars, fVars >>

\* The calls handleUpload makes after uploadAsset k is fulfilled with url.
AfterUpload(k, url) ==
  << [fn |-> "onImageEmbed", arg |-> url, by |-> k], [fn |-> "onClose", arg |-> Null, by |-> k] >>

\* The calls handleUpload makes in its catch block: none.
AfterUploadFailureCloses(k) == << [fn |-> "onClose", arg |-> Null, by |-> k] >>
AfterUploadFailure(k) == << >>

\* uploadAsset k is fulfilled with an asset at url.
UploadOk(k, url) ==
  /\ k \in 1..Len(iUploads)
  /\ iUploads[k].status = "pending"
  /\ iUploads' = [iUploads EXCEPT ![k].status = "ok", ![k].url = url]
  /\ UploadAssetFulfilled
  /\ iEvents' = iEvents \o AfterUpload(k, url)
  /\ UNCHANGED << isDragging, selectedFile, validationError >>
  /\ UNCHANGED << uVars, hVars, lVars, fVars >>

\* uploadAsset k is rejected: the hook keeps the error, handleUpload's catch
\* block is empty.
UploadFail(k, err) ==
  /\ k \in 1..Len(iUploads)
  /\ iUploads[k].status = "pending"
  /\ iUploads' = [iUploads EXCEPT ![k].status = "failed"]
  /\ UploadAssetRejected(err)
  /\ iEvents' = iEvents \o AfterUploadFailure(k)
  /\ UNCHANGED << isDragging, selectedFile, validationError >>
  /\ UNCHANGED << uVars, hVars, lVars, fVars >>

\* A click on the X or the Cancel button: onClick={onClose}.
CloseUpload ==
  /\ ModalOpen
  /\ iEvents' = Append(iEvents, [fn |-> "onClose", arg |-> Null, by |-> 0])
  /\ UNCHANGED << isDragging, selectedFile, validationError, isUploading, uploadError,
                  iUploads >>
  /\ UNCHANGED << uVars, hVars, lVars, fVars >>

NextUpload ==
  \/ handleDragOver
  \/ handleDragLeave
  \/ \E file \in DroppedFiles : handleDrop(file)
  \/ \E file \in DroppedFiles : handleFileSelect(file)
  \/ handleUpload
  \/ \E k \in 1..Len(iUploads), url \in AbsoluteUrls : UploadOk(k, url)
  \/ \E k \in 1..Len(iUploads), err \in UploadErrors : UploadFail(k, err)
  \/ CloseUpload

SpecUpload == InitUpload /\ [][NextUpload]_vars

\* ------------------------------------------------ ImageUploadModal: claims

\* C24: no upload is issued while no file is selected; an upload is of the
\* selected file, for 'comment'; the step that fulfils it calls onImageEmbed
\* with the returned url and then onClose; the step that rejects it calls
\* neither and keeps selectedFile, so every onImageEmbed call and every
\* onClose call of handleUpload belongs to a fulfilled upload.
C24_UploadThenEmbedAndClose ==
  /\ [][iUploads' # iUploads /\ Len(iUploads') > Len(iUploads) =>
          /\ selectedFile # Null
          /\ Len(iUploads') = Len(iUploads) + 1
          /\ iUploads'[Len(iUploads')].file = selectedFile
          /\ iUploads'[Len(iUploads')].purpose = "comment"
          /\ iEvents' = iEvents]_vars
  /\ [][selectedFile = Null => iUploads' = iUploads]_vars
  /\ [][\A k \in 1..Len(iUploads) :
          iUploads[k].status = "pending" /\ iUploads'[k].status = "ok" =>
            iEvents' = iEvents \o
              << [fn |-> "onImageEmbed", arg |-> iUploads'[k].url, by |-> k],
                 [fn |-> "onClose", arg |-> Null, by |-> k] >>]_vars
  /\ [][\A k \in 1..Len(iUploads) :
          iUploads[k].status = "pending" /\ iUploads'[k].status = "failed" =>
            /\ iEvents' = iEvents
            /\ selectedFile' = selectedFile
            /\ selectedFile' # Null]_vars
  /\ [](\A i \in 1..Len(iEvents) :
          iEvents[i].by # 0 =>
            /\ iUploads[iEvents[i].by].status = "ok"
            /\ iEvents[i].fn = "onImageEmbed" => iEvents[i].arg = iUploads[iEvents[i].by].url)

\* C24 witness: the upload of the selected image was rejected: nothing was
\* called, the modal is open with the file selected and the Upload button
\* enabled again.
C24_Witness ==
  /\ Len(iUploads) = 1
  /\ iUploads[1].status = "failed"
  /\ iUploads[1].file = "a.png"
  /\ selectedFile = "a.png"
  /\ iEvents = << >>
  /\ ModalOpen
  /\ uploadError = "Upload failed"
  /\ ~UploadDisabled

\* ======================================================== FlagContentModal

\* props.workType
ContentTypes == { "paper", "post", "preregistration" }

\* props.commentId, a string when given; the empty string is falsy.
CommentIds == { Undef, "", "12" }

\* props.documentId
DocumentId == "d1"

\* The keys of the flag options.
FlagReasons == { "SPAM", "PLAGIARISM" }

\* The commentId of a request for a document: undefined.
NoCommentId == -1

\* Number(commentId)
NumberOf(s) == IF s = "12" THEN 12 ELSE 0

\* workType === 'paper' ? 'paper' : 'researchhubpost'
DocumentTypeAsGiven(type) == type
DocumentTypeOf(type) == IF type = "paper" THEN "paper" ELSE "researchhubpost"

\* commentId ? Number(commentId) : undefined
CommentIdOf(id) == IF Truthy(id) THEN NumberOf(id) ELSE NoCommentId

\* useFlag: flag sets isLoading when called, clears it when the request
\* settles, and rejects on a failure.
FlagCalled == fIsLoading' = TRUE
FlagSettled == fIsLoading' = FALSE

\* The parent hides the modal when onClose is called.
OnCloseCalled == isOpen' = FALSE

\* disabled={!selectedReason || isLoading}
ReportDisabled == selectedReason = Null \/ fIsLoading

InitFlag ==
  /\ IdleUpdate
  /\ IdleHooks
  /\ IdleList
  /\ IdleUpload
  /\ isOpen = TRUE
  /\ workType \in ContentTypes
  /\ commentId \in CommentIds
  /\ selectedReason = Null
  /\ fIsLoading = FALSE
  /\ fRequests = << >>
  /\ fEvents = << >>

\* FlagRadioGroup onChange
SelectReason(value) ==
  /\ isOpen
  /\ selectedReason' = value
  /\ UNCHANGED << isOpen, workType, commentId, fIsLoading, fRequests, fEvents >>
  /\ UNCHANGED << uVars, hVars, lVars, iVars >>

\* A click on the Report button: handleSubmit up to the await.
handleSubmit ==
  /\ isOpen
  /\ ~ReportDisabled
  /\ Len(fRequests) < MaxFlags
  /\ IF selectedReason = Null
     THEN UNCHANGED << fIsLoading, fRequests >>
     ELSE /\ FlagCalled
          /\ fRequests' = Append(fRequests,
               [ documentType |-> DocumentTypeOf(workType), documentId |-> DocumentId,
                 reason |-> selectedReason, commentId |-> CommentIdOf(commentId),
                 status |-> "pending" ])
  /\ UNCHANGED << isOpen, workType, commentId, selectedReason, fEvents >>
  /\ UNCHANGED << uVars, hVars, lVars, iVars >>

\* The calls handleSubmit makes after flag k is fulfilled.
AfterFlag(k) ==
  << [fn |-> "toast.success", arg |-> "Content reported successfully", by |-> k],
     [fn |-> "onClose", arg |-> "", by |-> k] >>

\* The calls handleSubmit makes in its catch block.
AfterFlagFailureCloses(k) ==
  << [fn |-> "toast.error", arg |-> "Failed to report content", by |-> k],
     [fn |-> "onClose", arg |-> "", by |-> k] >>
AfterFlagFailure(k) ==
  << [fn |-> "toast.error", arg |-> "Failed to report content", by |-> k] >>

\* flag k is fulfilled.
FlagOk(k) ==
  /\ k \in 1..Len(fRequests)
  /\ fRequests[k].status = "pending"
  /\ fRequests' = [fRequests EXCEPT ![k].status = "ok"]
  /\ FlagSettled
  /\ fEvents' = fEvents \o AfterFlag(k)
  /\ OnCloseCalled
  /\ UNCHANGED << workType, commentId, selectedReason >>
  /\ UNCHANGED << uVars, hVars, lVars, iVars >>

\* flag k is rejected.
FlagFail(k) ==
  /\ k \in 1..Len(fRequests)
  /\ fRequests[k].status = "pending"
  /\ fRequests' = [fRequests EXCEPT ![k].status = "failed"]
  /\ FlagSettled
  /\ fEvents' = fEvents \o AfterFlagFailure(k)
  /\ UNCHANGED << isOpen, workType, commentId, selectedReason >>
  /\ UNCHANGED << uVars, hVars, lVars, iVars >>

\* The Cancel button, or the Dialog's own onClose (Escape, a click outside).
CloseFlag ==
  /\ isOpen
  /\ fEvents' = Append(fEvents, [fn |-> "onClose", arg |-> "", by |-> 0])
  /\ OnCloseCalled
  /\ UNCHANGED << workType, commentId, selectedReason, fIsLoading, fRequests >>
  /\ UNCHANGED << uVars, hVars, lVars, iVars >>

NextFlag ==
  \/ \E value \in FlagReasons : SelectReason(value)
  \/ handleSubmit
  \/ \E k \in 1..Len(fRequests) : FlagOk(k)
  \/ \E k \in 1..Len(fRequests) : FlagFail(k)
  \/ CloseFlag

SpecFlag == InitFlag /\ [][NextFlag]_vars

\* ------------------------------------------------ FlagContentModal: claims

\* C25: no flag request is issued while no reason is selected; a submit with
\* a reason issues one request, for the document and the selected reason,
\* whose documentType is 'paper' for the workType 'paper' and
\* 'researchhubpost' for any other; the step that fulfils it shows the
\* success toast and then calls onClose; the step that rejects it shows the
\* error toast, calls no onClose and keeps selectedReason; so handleSubmit
\* calls onClose for fulfilled requests only.
C25_FlagThenClose ==
  /\ [][selectedReason = Null => fRequests' = fRequests]_vars
  /\ [][Len(fRequests') > Len(fRequests) =>
          /\ Len(fRequests') = Len(fRequests) + 1
          /\ fRequests'[Len(fRequests')].documentType =
               (IF workType = "paper" THEN "paper" ELSE "researchhubpost")
          /\ fRequests'[Len(fRequests')].documentId = DocumentId
          /\ fRequests'[Len(fRequests')].reason = selectedReason
          /\ fRequests'[Len(fRequests')].status = "pending"
          /\ fEvents' = fEvents]_vars
  /\ [][\A k \in 1..Len(fRequests) :
          fRequests[k].status = "pending" /\ fRequests'[k].status = "ok" =>
            fEvents' = fEvents \o
              << [fn |-> "toast.success", arg |-> "Content reported successfully", by |-> k],
                 [fn |-> "onClose", arg |-> "", by |-> k] >>]_vars
  /\ [][\A k \in 1..Len(fRequests) :
          fRequests[k].status = "pending" /\ fRequests'[k].status = "failed" =>
            /\ fEvents' = Append(fEvents,
                 [fn |-> "toast.error", arg |-> "Failed to report content", by |-> k])
            /\ selectedReason' = selectedReason
            /\ selectedReason' # Null
            /\ isOpen' = isOpen]_vars
  /\ [](\A i \in 1..Len(fEvents) :
          fEvents[i].fn = "onClose" /\ fEvents[i].by # 0 =>
            fRequests[fEvents[i].by].status = "ok")

\* C25 witness: a report of a post was rejected: the error toast is the only
\* call, the modal is open and the reason is still selected.
C25_Witness ==
  /\ workType = "post"
  /\ Len(fRequests) = 1
  /\ fRequests[1].status = "failed"
  /\ fRequests[1].documentType = "researchhubpost"
  /\ fRequests[1].reason = "SPAM"
  /\ selectedReason = "SPAM"
  /\ isOpen
  /\ Len(fEvents) = 1
  /\ fEvents[1].fn = "toast.error"

====
